---- MODULE Spec2Model ----
(***************************************************************************)
(* Model of src/app.py: extract_student_id, extract_internship_data and    *)
(* process_zip_file (the extraction-and-consolidation engine).             *)
(*                                                                         *)
(* Python values are tagged tuples:                                        *)
(*   <<"nan">>        an empty cell (pandas NaN / openpyxl None)           *)
(*   <<"num", t>>     a numeric cell, t its value in tenths (25 is 2.5)    *)
(*   <<"str", s>>     a text value, s a sequence of one-character strings  *)
(*   <<"int", n>>     a Python int produced by int(float(..))              *)
(* A dict is a sequence of <<key, value>> pairs in insertion order, a      *)
(* key being a sequence of characters.  An Optional is a record            *)
(* [none, v]: None is [none |-> TRUE, v |-> <<>>].                         *)
(***************************************************************************)
EXTENDS Integers, Sequences, FiniteSets, TLC

(* ------------------------------ bounds -------------------------------- *)
\* most files in one uploaded zip (batch specification)
MaxFiles == 2
\* most rows in one workbook, all its sheets together (scan specification)
MaxRows == 3
\* most sheets in one workbook (scan specification)
MaxSheets == 2

(* ------------------------------ strings ------------------------------- *)
UpperChars == <<"A","B","C","D","E","F","G","H","I","J","K","L","M",
                "N","O","P","Q","R","S","T","U","V","W","X","Y","Z">>
LowerChars == <<"a","b","c","d","e","f","g","h","i","j","k","l","m",
                "n","o","p","q","r","s","t","u","v","w","x","y","z">>
DigitChars == <<"0","1","2","3","4","5","6","7","8","9">>
Whitespace == {" "}

\* str.lower() on one character
LowerChar(c) ==
  IF \E k \in 1..Len(UpperChars) : UpperChars[k] = c
  THEN LowerChars[CHOOSE k \in 1..Len(UpperChars) : UpperChars[k] = c]
  ELSE c

\* str.lower()
Lower(s) == [k \in 1..Len(s) |-> LowerChar(s[k])]

\* str.strip(): drops leading and trailing whitespace
RECURSIVE LStrip(_)
LStrip(s) == IF s # <<>> /\ Head(s) \in Whitespace THEN LStrip(Tail(s)) ELSE s

RECURSIVE RStrip(_)
RStrip(s) ==
  IF s # <<>> /\ s[Len(s)] \in Whitespace
  THEN RStrip(SubSeq(s, 1, Len(s) - 1)) ELSE s

Strip(s) == RStrip(LStrip(s))

IsDigit(c) == \E k \in 1..Len(DigitChars) : DigitChars[k] = c
DigitVal(c) == (CHOOSE k \in 1..Len(DigitChars) : DigitChars[k] = c) - 1
AllDigits(s) == \A k \in 1..Len(s) : IsDigit(s[k])

\* decimal value of a sequence of digits
RECURSIVE DigitsVal(_)
DigitsVal(s) ==
  IF s = <<>> THEN 0
  ELSE 10 * DigitsVal(SubSeq(s, 1, Len(s) - 1)) + DigitVal(s[Len(s)])

\* decimal digits of a natural number
RECURSIVE NatStr(_)
NatStr(n) ==
  IF n < 10 THEN <<DigitChars[n + 1]>>
  ELSE NatStr(n \div 10) \o <<DigitChars[(n % 10) + 1]>>

Abs(n) == IF n < 0 THEN -n ELSE n

\* str(x) of a cell value (src/app.py:31,64,65,74): a text is itself, an
\* integral number prints without a fraction, another number with its decimal
PyStr(x) ==
  IF x[1] = "str" THEN x[2]
  ELSE (IF x[2] < 0 THEN <<"-">> ELSE <<>>)
       \o NatStr(Abs(x[2]) \div 10)
       \o (IF Abs(x[2]) % 10 = 0 THEN <<>>
           ELSE <<".">> \o NatStr(Abs(x[2]) % 10))

(* ------------------------------ values -------------------------------- *)
NaN == <<"nan">>
NumV(t) == <<"num", t>>
StrV(s) == <<"str", s>>
IntV(n) == <<"int", n>>

None == [none |-> TRUE, v |-> <<>>]
Some(x) == [none |-> FALSE, v |-> x]
\* Python truthiness of an Optional string or dict: None, "" and {} are falsy
Truthy(o) == ~o.none /\ o.v # <<>>

\* pd.notna / "is not None"
notna(x) == x[1] # "nan"

\* position of the first "." of s, 0 when there is none
DotPos(s) ==
  IF \E k \in 1..Len(s) : s[k] = "."
  THEN CHOOSE k \in 1..Len(s) :
         s[k] = "." /\ \A m \in 1..(k - 1) : s[m] # "."
  ELSE 0

\* float(s) of a text, then int(..): whitespace is stripped, a sign, digits
\* and one "." are accepted, "inf"/"infinity" give an infinite float
IntFloatStr(s) ==
  LET t    == Strip(s)
      neg  == t # <<>> /\ Head(t) = "-"
      body == IF t # <<>> /\ Head(t) \in {"-", "+"} THEN Tail(t) ELSE t
      dot  == DotPos(body)
      whole == IF dot = 0 THEN body ELSE SubSeq(body, 1, dot - 1)
      frac  == IF dot = 0 THEN <<>> ELSE SubSeq(body, dot + 1, Len(body))
  IN IF Lower(body) \in {<<"i","n","f">>, <<"i","n","f","i","n","i","t","y">>}
     THEN <<"OverflowError">>
     ELSE IF AllDigits(whole) /\ AllDigits(frac) /\ (whole \o frac) # <<>>
     THEN <<"ok", IF neg THEN -DigitsVal(whole) ELSE DigitsVal(whole)>>
     ELSE <<"ValueError">>

\* int(float(completed_hours)): truncation toward zero, or the exception
IntFloat(x) ==
  IF x[1] = "num"
  THEN <<"ok", IF x[2] < 0 THEN -((-x[2]) \div 10) ELSE x[2] \div 10>>
  ELSE IntFloatStr(x[2])

(* ------------------------------- dicts -------------------------------- *)
Keys(d) == {d[k][1] : k \in 1..Len(d)}
HasKey(d, key) == \E k \in 1..Len(d) : d[k][1] = key
Get(d, key) == d[CHOOSE k \in 1..Len(d) : d[k][1] = key][2]
\* d[key] = val: an existing key keeps its position
SetItem(d, key, val) ==
  IF HasKey(d, key)
  THEN [k \in 1..Len(d) |-> IF d[k][1] = key THEN <<key, val>> ELSE d[k]]
  ELSE Append(d, <<key, val>>)
\* d.update(e)
RECURSIVE Update(_, _)
Update(d, e) ==
  IF e = <<>> THEN d
  ELSE Update(SetItem(d, Head(e)[1], Head(e)[2]), Tail(e))

(* ----------------------------- workbooks ------------------------------ *)
\* A workbook on disk: opens (load_workbook succeeds), pd_opens
\* (pd.ExcelFile succeeds) and its sheets in document order.  A sheet is
\* [name, ncols, rows]; a row holds the raw cells of columns 0 and 2, the
\* only columns the code reads.  Row r's second cell is cell C<r>.
AdvisingName == "Current Semester Advising"
StudentIdKey == <<"S","t","u","d","e","n","t","_","I","D">>
InternshipCodeText == <<"i","n","t","e","r","n","s","h","i","p"," ","c","o","d","e">>
CompletedText == <<"c","o","m","p","l","e","t","e","d">>

\* the default NA strings of pandas' readers seen by the samples
NaStrings == {<<>>, <<"N","/","A">>, <<"N","A">>, <<"n","a","n">>}

\* a reader called with keep_default_na=False: every text is kept
ReadCell_KeepText(c) == c

\* one cell as pd.read_excel(header=None) returns it
ReadCell(c) == IF c[1] = "str" /\ c[2] \in NaStrings THEN NaN ELSE c

\* pd.read_excel(file_path, sheet_name=.., header=None)
read_excel(sheet) ==
  [ncols |-> sheet.ncols,
   rows  |-> [r \in 1..Len(sheet.rows) |->
                <<ReadCell(sheet.rows[r][1]), ReadCell(sheet.rows[r][2])>>]]

\* sheet['C5'].value as openpyxl returns it: None for a cell not there
CellC5(sheet) ==
  IF Len(sheet.rows) >= 5 /\ sheet.ncols >= 3 THEN sheet.rows[5][2] ELSE NaN

HasSheet(wb, name) == \E k \in 1..Len(wb.sheets) : wb.sheets[k].name = name
SheetNamed(wb, name) ==
  wb.sheets[CHOOSE k \in 1..Len(wb.sheets) :
              /\ wb.sheets[k].name = name
              /\ \A m \in 1..(k - 1) : wb.sheets[m].name # name]

\* extract_student_id testing "if student_id:" instead of "is not None"
extract_student_id_Falsy(wb) ==
  IF ~wb.opens THEN None
  ELSE IF ~HasSheet(wb, AdvisingName) THEN None
  ELSE LET student_id == CellC5(SheetNamed(wb, AdvisingName))
       IN IF notna(student_id) /\ student_id # NumV(0) /\ student_id # StrV(<<>>)
          THEN Some(Strip(PyStr(student_id))) ELSE None

\* extract_student_id: None on any exception, on a missing sheet and on an
\* empty cell; otherwise the stripped string form of C5 (possibly "")
extract_student_id(wb) ==
  IF ~wb.opens THEN None
  ELSE IF ~HasSheet(wb, AdvisingName) THEN None
  ELSE LET student_id == CellC5(SheetNamed(wb, AdvisingName))
       IN IF notna(student_id) THEN Some(Strip(PyStr(student_id))) ELSE None

\* the header test of the outer row loop (1-based row index)
IsHeader(d, r) ==
  /\ d.ncols >= 4
  /\ notna(d.rows[r][1])
  /\ notna(d.rows[r][2])
  /\ Lower(Strip(PyStr(d.rows[r][1]))) = InternshipCodeText
  /\ Lower(Strip(PyStr(d.rows[r][2]))) = CompletedText

\* the data-row test of the inner loop
IsDataRow(d, r) ==
  /\ d.ncols >= 4
  /\ notna(d.rows[r][1])
  /\ notna(d.rows[r][2])

(* --------------------------- sample inputs ---------------------------- *)
HeaderRow == <<StrV(<<" ","I","n","t","e","r","n","s","h","i","p"," ","C","O","D","E">>),
               StrV(<<"C","o","m","p","l","e","t","e","d"," ">>)>>
Blank     == <<NaN, NaN>>
RowA      == <<StrV(<<"A">>), NumV(25)>>
RowA2     == <<StrV(<<"A">>), NumV(40)>>
RowB      == <<StrV(<<" ","B"," ">>), StrV(<<"3",".","9">>)>>
RowX      == <<StrV(<<"B">>), StrV(<<"x">>)>>
RowNA     == <<StrV(<<"B">>), StrV(<<"N","/","A">>)>>
RowInf    == <<StrV(<<"B">>), StrV(<<"i","n","f">>)>>
RowWs     == <<StrV(<<" ">>), NumV(10)>>
RowSid    == <<StrV(StudentIdKey), NumV(70)>>

Data(rows) == [name |-> "Sheet1", ncols |-> 4, rows |-> rows]
Data2(rows) == [name |-> "Sheet2", ncols |-> 4, rows |-> rows]
Narrow(rows) == [name |-> "Notes", ncols |-> 3, rows |-> rows]
Named(name, c5) ==
  [name |-> name, ncols |-> 4,
   rows |-> <<Blank, Blank, Blank, Blank, <<StrV(<<"I","D">>), c5>> >>]
Adv(c5) == Named(AdvisingName, c5)
Wb(sheets) == [opens |-> TRUE, pd_opens |-> TRUE, sheets |-> sheets]

S1 == StrV(<<"S","1">>)
S2 == StrV(<<" ","S","2"," ">>)

\* the workbooks a batch is drawn from
BatchWorkbooks ==
  { Wb(<<Adv(S1), Data(<<Blank, HeaderRow, RowA, Blank>>)>>),
    Wb(<<Data(<<HeaderRow, RowB>>), Adv(S2)>>),
    Wb(<<Data(<<HeaderRow, RowB, RowX, RowA2>>), Adv(S1)>>),
    Wb(<<Narrow(<<HeaderRow, RowB>>), Adv(NumV(0)), Data(<<HeaderRow, RowA>>)>>),
    Wb(<<Adv(S1), Data(<<HeaderRow, RowSid, RowA>>)>>),
    Wb(<<Data(<<HeaderRow, RowA>>)>>),
    Wb(<<Named("current semester advising", S1), Data(<<HeaderRow, RowA>>)>>),
    Wb(<<Adv(NaN), Data(<<HeaderRow, RowA>>)>>),
    Wb(<<Adv(StrV(<<" ">>)), Data(<<HeaderRow, RowA>>)>>),
    [opens |-> FALSE, pd_opens |-> FALSE, sheets |-> <<>>],
    [opens |-> TRUE, pd_opens |-> FALSE, sheets |-> <<Adv(S1)>>],
    Wb(<<Adv(S1), Data(<<HeaderRow, Blank, RowWs, RowA>>)>>),
    Wb(<<Data(<<HeaderRow, RowA, RowInf>>), Data2(<<HeaderRow, RowB>>), Adv(S2)>>) }

BaseNames == {"s.xlsx", "t.xlsx"}

\* the rows a scanned workbook is built from
RowSamples == {HeaderRow, RowA, RowB, RowX, RowNA, RowInf}
SheetWidths == {3, 4}
SheetNames == <<"Sheet1", "Sheet2", "Sheet3", "Sheet4", "Sheet5">>

\* the sheets of a workbook: flat cut at the nondecreasing points cuts
SplitAt(flat, cuts, widths) ==
  [k \in 1..(Len(cuts) + 1) |->
     [name  |-> SheetNames[k],
      ncols |-> widths[k],
      rows  |-> SubSeq(flat,
                       (IF k = 1 THEN 0 ELSE cuts[k - 1]) + 1,
                       IF k > Len(cuts) THEN Len(flat) ELSE cuts[k])]]

\* the widths of m sheets, at most one of them too narrow to hold a table
Widths(m) ==
  { w \in [1..m -> SheetWidths] : Cardinality({k \in 1..m : w[k] < 4}) <= 1 }

\* the nondecreasing cut points of n rows into m sheets
Cuts(n, m) ==
  { c \in [1..(m - 1) -> 0..n] : \A k \in 1..(m - 2) : c[k] <= c[k + 1] }

(* ------------------------------- state -------------------------------- *)
VARIABLES
  excel_files,        \* the paths found by os.walk, <<directory, base name>>
  workbooks,          \* the file at each path
  processed_files, error_files, all_student_data,
  consolidated_df,    \* the returned DataFrame: [columns, rows]
  file_idx,           \* position of the batch loop in excel_files
  student_id, internship_data,
  sheet_idx, df, i, j,\* locals of extract_internship_data
  pc

vars == <<excel_files, workbooks, processed_files, error_files,
          all_student_data, consolidated_df, file_idx, student_id,
          internship_data, sheet_idx, df, i, j, pc>>

EmptyDataFrame == [columns |-> <<>>, rows |-> <<>>]
NoSheetRead == [ncols |-> 0, rows |-> <<>>]

IdReason == "Could not extract student ID from 'Current Semester Advising' sheet, cell C5"
DataReason == "Could not extract internship data"

file_path == excel_files[file_idx]
\* os.path.basename(file_path)
file_name == file_path[2]
workbook == workbooks[file_path]

Locals0 ==
  /\ student_id = None
  /\ internship_data = None
  /\ sheet_idx = 0
  /\ df = NoSheetRead
  /\ i = 0
  /\ j = 0

\* process_zip_file after the archive is unpacked and walked
Init ==
  /\ \E n \in 0..MaxFiles :
       \E names \in [1..n -> BaseNames] :
         /\ excel_files = [k \in 1..n |-> <<k, names[k]>>]
         /\ workbooks \in [{ <<k, names[k]>> : k \in 1..n } -> BatchWorkbooks]
  /\ processed_files = <<>>
  /\ error_files = <<>>
  /\ all_student_data = <<>>
  /\ consolidated_df = EmptyDataFrame
  /\ file_idx = 1
  /\ Locals0
  /\ pc = "loop"

\* extract_internship_data called on one workbook, every workbook of at most
\* MaxSheets sheets and MaxRows rows in all
InitScan ==
  /\ excel_files = << <<1, "s.xlsx">> >>
  /\ \/ \E n \in 0..MaxRows, m \in 1..MaxSheets :
          \E flat \in [1..n -> RowSamples], cuts \in Cuts(n, m),
             widths \in Widths(m) :
            workbooks = [p \in { <<1, "s.xlsx">> } |->
                           Wb(SplitAt(flat, cuts, widths))]
     \/ workbooks = [p \in { <<1, "s.xlsx">> } |->
                       [opens |-> TRUE, pd_opens |-> FALSE, sheets |-> <<>>]]
  /\ processed_files = <<>>
  /\ error_files = <<>>
  /\ all_student_data = <<>>
  /\ consolidated_df = EmptyDataFrame
  /\ file_idx = 1
  /\ Locals0
  /\ pc = "open_excel"

(* ---------------------- extract_internship_data ----------------------- *)
ScanLocals == <<internship_data, sheet_idx, df, i, j>>
BatchVars == <<excel_files, workbooks, processed_files, error_files,
               all_student_data, consolidated_df, file_idx, student_id>>

\* pd.ExcelFile(file_path) raises: the outer handler returns None
ExcelFileError ==
  /\ pc = "open_excel"
  /\ ~workbook.pd_opens
  /\ internship_data' = None
  /\ pc' = "got_data"
  /\ UNCHANGED <<BatchVars, sheet_idx, df, i, j>>

\* pd.ExcelFile(file_path); internship_data = {}
OpenExcelFile ==
  /\ pc = "open_excel"
  /\ workbook.pd_opens
  /\ internship_data' = Some(<<>>)
  /\ sheet_idx' = 1
  /\ pc' = "sheets"
  /\ UNCHANGED <<BatchVars, df, i, j>>

\* for sheet_name in excel_file.sheet_names: df = pd.read_excel(..)
ReadSheet ==
  /\ pc = "sheets"
  /\ sheet_idx <= Len(workbook.sheets)
  /\ df' = read_excel(workbook.sheets[sheet_idx])
  /\ i' = 1
  /\ pc' = "rows"
  /\ UNCHANGED <<BatchVars, internship_data, sheet_idx, j>>

\* the sheets are exhausted: return internship_data if internship_data else None
ReturnAfterSheets ==
  /\ pc = "sheets"
  /\ sheet_idx > Len(workbook.sheets)
  /\ internship_data' = IF internship_data.v # <<>> THEN internship_data ELSE None
  /\ pc' = "got_data"
  /\ UNCHANGED <<BatchVars, sheet_idx, df, i, j>>

\* for i in range(len(df)) ends: the next sheet
RowsExhausted ==
  /\ pc = "rows"
  /\ i > Len(df.rows)
  /\ sheet_idx' = sheet_idx + 1
  /\ pc' = "sheets"
  /\ UNCHANGED <<BatchVars, internship_data, df, i, j>>

\* row i is a header row: the inner loop starts at the row after it
HeaderFound ==
  /\ pc = "rows"
  /\ i <= Len(df.rows)
  /\ IsHeader(df, i)
  /\ j' = i + 1
  /\ pc' = "block"
  /\ UNCHANGED <<BatchVars, internship_data, sheet_idx, df, i>>

\* row i is no header row
NotHeader ==
  /\ pc = "rows"
  /\ i <= Len(df.rows)
  /\ ~IsHeader(df, i)
  /\ i' = i + 1
  /\ UNCHANGED <<BatchVars, internship_data, sheet_idx, df, j, pc>>

internship_code == Strip(PyStr(df.rows[j][1]))
completed_hours == df.rows[j][2]

\* internship_data[internship_code] = int(float(completed_hours))
Record(d, code, hours) == SetItem(d, code, IntV(IntFloat(hours)[2]))

\* a data row whose hours convert: the entry is recorded
BlockRecord ==
  /\ pc = "block"
  /\ j <= Len(df.rows)
  /\ IsDataRow(df, j)
  /\ internship_code # <<>>
  /\ IntFloat(completed_hours)[1] = "ok"
  /\ internship_data' = Some(Record(internship_data.v, internship_code, completed_hours))
  /\ j' = j + 1
  /\ UNCHANGED <<BatchVars, sheet_idx, df, i, pc>>

\* the ValueError handler breaking out of the block instead of continuing
BlockSkip_Break ==
  /\ pc = "block"
  /\ j <= Len(df.rows)
  /\ IsDataRow(df, j)
  /\ IF internship_code = <<>> THEN TRUE
     ELSE IntFloat(completed_hours)[1] = "ValueError"
  /\ IF internship_data.v # <<>>
     THEN pc' = "got_data" /\ i' = i
     ELSE pc' = "rows" /\ i' = i + 1
  /\ UNCHANGED <<BatchVars, internship_data, sheet_idx, df, j>>

\* a data row with an empty code, or whose hours raise ValueError: continue
BlockSkip ==
  /\ pc = "block"
  /\ j <= Len(df.rows)
  /\ IsDataRow(df, j)
  /\ IF internship_code = <<>> THEN TRUE
     ELSE IntFloat(completed_hours)[1] = "ValueError"
  /\ j' = j + 1
  /\ UNCHANGED <<BatchVars, internship_data, sheet_idx, df, i, pc>>

\* int(inf) raises OverflowError, which only the per-sheet handler catches:
\* continue with the next sheet, internship_data kept
BlockOverflow ==
  /\ pc = "block"
  /\ j <= Len(df.rows)
  /\ IsDataRow(df, j)
  /\ internship_code # <<>>
  /\ IntFloat(completed_hours)[1] = "OverflowError"
  /\ sheet_idx' = sheet_idx + 1
  /\ pc' = "sheets"
  /\ UNCHANGED <<BatchVars, internship_data, df, i, j>>

\* the inner loop ends (break, or no row left)
BlockOver == IF j > Len(df.rows) THEN TRUE ELSE ~IsDataRow(df, j)

\* if internship_data: return internship_data
BlockEndReturn ==
  /\ pc = "block"
  /\ BlockOver
  /\ internship_data.v # <<>>
  /\ pc' = "got_data"
  /\ UNCHANGED <<BatchVars, ScanLocals>>

\* nothing recorded: the outer loop goes on with the row after the header
BlockEndContinue ==
  /\ pc = "block"
  /\ BlockOver
  /\ internship_data.v = <<>>
  /\ i' = i + 1
  /\ pc' = "rows"
  /\ UNCHANGED <<BatchVars, internship_data, sheet_idx, df, j>>

NextScan ==
  \/ ExcelFileError
  \/ OpenExcelFile
  \/ ReadSheet
  \/ ReturnAfterSheets
  \/ RowsExhausted
  \/ HeaderFound
  \/ NotHeader
  \/ BlockRecord
  \/ BlockSkip
  \/ BlockOverflow
  \/ BlockEndReturn
  \/ BlockEndContinue

SpecScan == InitScan /\ [][NextScan]_vars

(* -------------------------- process_zip_file -------------------------- *)
\* if not excel_files: return pd.DataFrame(), [], []
NoExcelFiles ==
  /\ pc = "loop"
  /\ excel_files = <<>>
  /\ consolidated_df' = EmptyDataFrame
  /\ pc' = "done"
  /\ UNCHANGED <<excel_files, workbooks, processed_files, error_files,
                 all_student_data, file_idx, student_id, ScanLocals>>

\* extract_student_id letting load_workbook's exception reach the batch
\* loop's handler, which lists the file with the exception's text
IdNotFound_OuterHandler ==
  /\ pc = "loop"
  /\ file_idx <= Len(excel_files)
  /\ ~Truthy(extract_student_id(workbook))
  /\ student_id' = IF workbook.opens THEN extract_student_id(workbook) ELSE student_id
  /\ error_files' = Append(error_files,
                           <<file_name, IF workbook.opens THEN IdReason
                                        ELSE "File is not a zip file">>)
  /\ file_idx' = file_idx + 1
  /\ UNCHANGED <<excel_files, workbooks, processed_files, all_student_data,
                 consolidated_df, ScanLocals, pc>>

\* student_id = extract_student_id(file_path); if not student_id: the file
\* is listed with the identifier reason and the loop continues
IdNotFound ==
  /\ pc = "loop"
  /\ file_idx <= Len(excel_files)
  /\ ~Truthy(extract_student_id(workbook))
  /\ student_id' = extract_student_id(workbook)
  /\ error_files' = Append(error_files, <<file_name, IdReason>>)
  /\ file_idx' = file_idx + 1
  /\ UNCHANGED <<excel_files, workbooks, processed_files, all_student_data,
                 consolidated_df, ScanLocals, pc>>

\* the identifier is found: extract_internship_data(file_path) is called
IdFound ==
  /\ pc = "loop"
  /\ file_idx <= Len(excel_files)
  /\ Truthy(extract_student_id(workbook))
  /\ student_id' = extract_student_id(workbook)
  /\ pc' = "open_excel"
  /\ UNCHANGED <<excel_files, workbooks, processed_files, error_files,
                 all_student_data, consolidated_df, file_idx, ScanLocals>>

\* the data failure continuing without listing the file
DataNotFound_Unlisted ==
  /\ pc = "got_data"
  /\ ~Truthy(internship_data)
  /\ file_idx' = file_idx + 1
  /\ pc' = "loop"
  /\ UNCHANGED <<excel_files, workbooks, processed_files, error_files,
                 all_student_data, consolidated_df, student_id, ScanLocals>>

\* if not internship_data: the file is listed with the data reason
DataNotFound ==
  /\ pc = "got_data"
  /\ ~Truthy(internship_data)
  /\ error_files' = Append(error_files, <<file_name, DataReason>>)
  /\ file_idx' = file_idx + 1
  /\ pc' = "loop"
  /\ UNCHANGED <<excel_files, workbooks, processed_files, all_student_data,
                 consolidated_df, student_id, ScanLocals>>

\* student_record = {'Student_ID': student_id}; student_record.update(..)
StudentRecord(id, data) == Update(<< <<StudentIdKey, StrV(id)>> >>, data)

\* the record is appended and the file is listed as processed
AppendRecord ==
  /\ pc = "got_data"
  /\ Truthy(internship_data)
  /\ all_student_data' =
       Append(all_student_data, StudentRecord(student_id.v, internship_data.v))
  /\ processed_files' = Append(processed_files, file_name)
  /\ file_idx' = file_idx + 1
  /\ pc' = "loop"
  /\ UNCHANGED <<excel_files, workbooks, error_files, consolidated_df,
                 student_id, ScanLocals>>

\* the keys of d that are not in cols, in d's order
RECURSIVE NewKeys(_, _)
NewKeys(d, cols) ==
  IF d = <<>> THEN <<>>
  ELSE IF \E k \in 1..Len(cols) : cols[k] = Head(d)[1]
       THEN NewKeys(Tail(d), cols)
       ELSE <<Head(d)[1]>> \o NewKeys(Tail(d), cols)

\* the columns of pd.DataFrame(list of dicts): the keys in first-seen order
RECURSIVE UnionColumns(_, _)
UnionColumns(data, cols) ==
  IF data = <<>> THEN cols
  ELSE UnionColumns(Tail(data), cols \o NewKeys(Head(data), cols))

\* pd.DataFrame(all_student_data): a key a record lacks is NaN in its row
DataFrame(data) ==
  LET cols == UnionColumns(data, <<>>)
  IN [columns |-> cols,
      rows |-> [r \in 1..Len(data) |->
                  [k \in 1..Len(cols) |->
                     IF HasKey(data[r], cols[k]) THEN Get(data[r], cols[k])
                     ELSE NaN]]]

\* frame.fillna(0)
fillna(frame) ==
  [columns |-> frame.columns,
   rows |-> [r \in 1..Len(frame.rows) |->
               [k \in 1..Len(frame.columns) |->
                  IF notna(frame.rows[r][k]) THEN frame.rows[r][k] ELSE IntV(0)]]]

IsNotStudentId(col) == col # StudentIdKey
\* ['Student_ID'] + [col for col in columns if col != 'Student_ID']
StudentIdFirst(columns) == <<StudentIdKey>> \o SelectSeq(columns, IsNotStudentId)

ColumnIndex(frame, col) ==
  CHOOSE k \in 1..Len(frame.columns) : frame.columns[k] = col

\* frame[cols]: the named columns, in the order of cols
SelectColumns(frame, cols) ==
  [columns |-> cols,
   rows |-> [r \in 1..Len(frame.rows) |->
               [k \in 1..Len(cols) |-> frame.rows[r][ColumnIndex(frame, cols[k])]]]]

IsFirstOfItsId(data, r) ==
  \A q \in 1..(r - 1) : Get(data[q], StudentIdKey) # Get(data[r], StudentIdKey)
RECURSIVE FirstOfEachId(_, _)
FirstOfEachId(data, r) ==
  IF r > Len(data) THEN <<>>
  ELSE (IF IsFirstOfItsId(data, r) THEN <<data[r]>> ELSE <<>>)
       \o FirstOfEachId(data, r + 1)
\* a consolidation that keeps one row per Student_ID (drop_duplicates)
Consolidate_DropDuplicates(data) ==
  IF data # <<>>
  THEN LET filled == fillna(DataFrame(FirstOfEachId(data, 1)))
       IN SelectColumns(filled, StudentIdFirst(filled.columns))
  ELSE EmptyDataFrame

\* the consolidated DataFrame built after the loop
Consolidate(data) ==
  IF data # <<>>
  THEN LET filled == fillna(DataFrame(data))
       IN SelectColumns(filled, StudentIdFirst(filled.columns))
  ELSE EmptyDataFrame

\* the loop is over: build and return the consolidated DataFrame
BuildDataFrame ==
  /\ pc = "loop"
  /\ excel_files # <<>>
  /\ file_idx > Len(excel_files)
  /\ consolidated_df' = Consolidate(all_student_data)
  /\ pc' = "done"
  /\ UNCHANGED <<excel_files, workbooks, processed_files, error_files,
                 all_student_data, file_idx, student_id, ScanLocals>>

Next ==
  \/ NoExcelFiles
  \/ IdNotFound
  \/ IdFound
  \/ NextScan
  \/ DataNotFound
  \/ AppendRecord
  \/ BuildDataFrame

Spec == Init /\ [][Next]_vars

(* ============================ properties ============================== *)
\* the file the batch loop finished last, at a loop head or after the loop
AtLoopHead == pc \in {"loop", "done"} /\ file_idx > 1
LastPath == excel_files[file_idx - 1]
LastWorkbook == workbooks[LastPath]
Last(seq) == seq[Len(seq)]
\* the locals still hold the last file's results: it was folded iff both hold
LastSucceeded == Truthy(student_id) /\ Truthy(internship_data)

\* P and F (with the reason dropped) are complementary subsequences of V
RECURSIVE Interleaves(_, _, _)
Interleaves(P, F, V) ==
  IF V = <<>> THEN P = <<>> /\ F = <<>>
  ELSE \/ P # <<>> /\ Head(P) = Head(V) /\ Interleaves(Tail(P), F, Tail(V))
       \/ F # <<>> /\ Head(F)[1] = Head(V) /\ Interleaves(P, Tail(F), Tail(V))

VisitedNames == [k \in 1..(file_idx - 1) |-> excel_files[k][2]]

\* C1: every visited file is in exactly one of processed_files and
\* error_files (the two lists are complementary subsequences of the visited
\* files, so their lengths add up to the number visited), and when the
\* function returns every input file has been visited.
C1_ExactlyOneList ==
  /\ Interleaves(processed_files, error_files, VisitedNames)
  /\ Len(processed_files) + Len(error_files) = file_idx - 1
  /\ pc = "done" => file_idx - 1 = Len(excel_files)

\* a failed file is followed by a processed one, and a third outcome exists
C1_Witness ==
  /\ pc = "done"
  /\ Len(excel_files) = 2
  /\ ~workbooks[excel_files[1]].opens
  /\ error_files = << <<excel_files[1][2], IdReason>> >>
  /\ processed_files = <<excel_files[2][2]>>

(* ---- the consolidated table against the accumulated records ---------- *)
NRows == Len(consolidated_df.rows)
HasColumn(col) == \E k \in 1..Len(consolidated_df.columns) : consolidated_df.columns[k] = col
Cell(r, col) == consolidated_df.rows[r][ColumnIndex(consolidated_df, col)]

IsCategoryEntry(e) == e[2][1] = "int"
\* the CategoryRecord folded into a student record: its integer-valued
\* entries (an identifier is always a string, a count always an integer)
CategoryRecord(rec) == SelectSeq(rec, IsCategoryEntry)
CategoryCodes == UNION { Keys(CategoryRecord(all_student_data[r])) : r \in 1..Len(all_student_data) }

\* C2: in the returned table every category code of a file's record is a
\* column holding exactly the recorded integer in that file's row, and every
\* category column the file's record lacks holds 0 there.
C2_RowsHoldRecords ==
  pc = "done" =>
    /\ NRows = Len(all_student_data)
    /\ \A r \in 1..Len(all_student_data) :
         LET cat == CategoryRecord(all_student_data[r])
         IN /\ \A code \in Keys(cat) :
                 HasColumn(code) /\ Cell(r, code) = Get(cat, code)
            /\ \A code \in CategoryCodes \ Keys(cat) :
                 HasColumn(code) /\ Cell(r, code) = IntV(0)

\* C3: one row per processed file, in processing order, built from that
\* file's record only; no column comes from anywhere else; two files with the
\* same identifier give two rows.
C3_OneRowPerProcessedFile ==
  /\ Len(all_student_data) = Len(processed_files)
  /\ (AtLoopHead /\ LastSucceeded) =>
       /\ Last(processed_files) = LastPath[2]
       /\ Last(all_student_data) = StudentRecord(student_id.v, internship_data.v)
  /\ pc = "done" =>
       /\ NRows = Len(processed_files)
       /\ \A r \in 1..NRows :
            \A key \in Keys(all_student_data[r]) :
              HasColumn(key) /\ Cell(r, key) = Get(all_student_data[r], key)
       /\ \A k \in 1..Len(consolidated_df.columns) :
            \E r \in 1..Len(all_student_data) :
              HasKey(all_student_data[r], consolidated_df.columns[k])

\* two processed files carry the same identifier and both rows are there
C3_Witness ==
  /\ pc = "done"
  /\ Len(processed_files) = 2
  /\ Len(error_files) = 0
  /\ NRows = 2
  /\ Cell(1, StudentIdKey) = Cell(2, StudentIdKey)
  /\ consolidated_df.rows[1] # consolidated_df.rows[2]

\* where a category code is first seen: <<record, position in the record>>
FirstSeen(code) ==
  LET r == CHOOSE r \in 1..Len(all_student_data) :
             /\ code \in Keys(CategoryRecord(all_student_data[r]))
             /\ \A q \in 1..(r - 1) : code \notin Keys(CategoryRecord(all_student_data[q]))
      cat == CategoryRecord(all_student_data[r])
  IN <<r, CHOOSE k \in 1..Len(cat) : cat[k][1] = code>>
Before(a, b) == a[1] < b[1] \/ (a[1] = b[1] /\ a[2] < b[2])

\* C4: with at least one processed file the columns are "Student_ID" and then
\* every category code exactly once, in first-seen order.
C4_ColumnsFirstSeen ==
  (pc = "done" /\ all_student_data # <<>>) =>
    LET cols == consolidated_df.columns
    IN /\ cols[1] = StudentIdKey
       /\ Len(cols) = 1 + Cardinality(CategoryCodes)
       /\ \A code \in CategoryCodes : \E k \in 2..Len(cols) : cols[k] = code
       /\ \A k \in 2..Len(cols) : \A m \in (k + 1)..Len(cols) :
            /\ cols[k] \in CategoryCodes
            /\ cols[m] \in CategoryCodes
            /\ Before(FirstSeen(cols[k]), FirstSeen(cols[m]))

AdvisingC5(wb) == CellC5(SheetNamed(wb, AdvisingName))
\* the three ways the identifier is not found
IdAbsent(wb) ==
  IF ~HasSheet(wb, AdvisingName) THEN TRUE
  ELSE IF AdvisingC5(wb)[1] = "nan" THEN TRUE
  ELSE Strip(PyStr(AdvisingC5(wb))) = <<>>

\* C6: for a workbook that opens, the identifier is not found exactly when
\* the advising sheet is absent, C5 is empty or C5's string form is empty
\* after trimming; otherwise it is that trimmed string form (also "0"), and
\* the file is not listed as failed for its identifier.
C6_IdentifierLocation ==
  /\ (pc \notin {"loop", "done"} /\ workbook.opens) =>
       /\ ~IdAbsent(workbook)
       /\ student_id = Some(Strip(PyStr(AdvisingC5(workbook))))
  /\ (AtLoopHead /\ LastWorkbook.opens) =>
       IF IdAbsent(LastWorkbook)
       THEN /\ ~Truthy(student_id)
            /\ Last(error_files) = <<LastPath[2], IdReason>>
       ELSE /\ student_id = Some(Strip(PyStr(AdvisingC5(LastWorkbook))))
            /\ IF Truthy(internship_data)
               THEN Last(processed_files) = LastPath[2]
               ELSE Last(error_files) = <<LastPath[2], DataReason>>

\* a numeric 0 in C5 gave the identifier "0" and the file was processed
C6_Witness ==
  /\ pc = "done"
  /\ file_idx > 1
  /\ HasSheet(LastWorkbook, AdvisingName)
  /\ AdvisingC5(LastWorkbook) = NumV(0)
  /\ student_id = Some(<<"0">>)
  /\ Last(processed_files) = LastPath[2]
  /\ Cell(NRows, StudentIdKey) = StrV(<<"0">>)

\* C10: the Student_ID of a processed file's record, and of its row in the
\* returned table, is the identifier located in that file, whatever category
\* codes the file reports.
C10_IdentifierKept ==
  /\ (AtLoopHead /\ LastSucceeded) =>
       /\ student_id.v = Strip(PyStr(AdvisingC5(LastWorkbook)))
       /\ Get(Last(all_student_data), StudentIdKey) = StrV(student_id.v)
  /\ (pc = "done" /\ LastSucceeded) =>
       Cell(NRows, StudentIdKey) = StrV(student_id.v)

(* ---- the scan of one workbook --------------------------------------- *)
\* the first row after header row h that is no data row (or the row past
\* the end): where the block under h ends
BlockEndRow(d, h) ==
  CHOOSE r \in (h + 1)..(Len(d.rows) + 1) :
    /\ r = Len(d.rows) + 1 \/ ~IsDataRow(d, r)
    /\ \A q \in (h + 1)..(r - 1) : IsDataRow(d, q)

\* the entries of rows r..(end - 1): a row whose code is empty or whose
\* count is no number is dropped
RECURSIVE BlockEntries(_, _, _, _)
BlockEntries(d, r, end, acc) ==
  IF r >= end THEN acc
  ELSE LET code == Strip(PyStr(d.rows[r][1]))
           n    == IntFloat(d.rows[r][2])
       IN BlockEntries(d, r + 1, end,
            IF code # <<>> /\ n[1] = "ok" THEN SetItem(acc, code, IntV(n[2])) ELSE acc)

BlockUnder(wb, s, h) ==
  LET d == read_excel(wb.sheets[s])
  IN BlockEntries(d, h + 1, BlockEndRow(d, h), <<>>)

\* the header rows of wb, <<sheet, row>>, whose block records an entry
RecordingHeaders(wb) ==
  { sh \in UNION { { <<s, h>> : h \in 1..Len(wb.sheets[s].rows) } : s \in 1..Len(wb.sheets) } :
      /\ IsHeader(read_excel(wb.sheets[sh[1]]), sh[2])
      /\ BlockUnder(wb, sh[1], sh[2]) # <<>> }

FirstRecordingHeader(wb) ==
  CHOOSE sh \in RecordingHeaders(wb) :
    \A other \in RecordingHeaders(wb) : sh = other \/ Before(sh, other)

\* C7: the scan returns exactly the entries of the block under the first
\* header row (sheets in document order, rows top to bottom) whose block
\* records an entry, and None when no header has such a block.
C7_FirstRecordingBlockOnly ==
  pc = "got_data" =>
    internship_data =
      IF ~workbook.pd_opens \/ RecordingHeaders(workbook) = {} THEN None
      ELSE LET sh == FirstRecordingHeader(workbook)
           IN Some(BlockUnder(workbook, sh[1], sh[2]))

InBlockAtRow == pc = "block" /\ j <= Len(df.rows)

\* C8: in a block, a data row whose count raises ValueError is dropped and
\* the scan goes on with the next row of the same block; a data row after it
\* whose count converts is recorded.
C8_UnparsableRowSkipped ==
  [][ /\ (InBlockAtRow /\ IsDataRow(df, j)
            /\ IntFloat(completed_hours)[1] = "ValueError")
        => (pc' = "block" /\ j' = j + 1 /\ i' = i /\ df' = df
              /\ internship_data' = internship_data)
      /\ (InBlockAtRow /\ IsDataRow(df, j) /\ internship_code # <<>>
            /\ IntFloat(completed_hours)[1] = "ok")
        => (pc' = "block" /\ j' = j + 1
              /\ HasKey(internship_data'.v, internship_code)
              /\ Get(internship_data'.v, internship_code)
                   = IntV(IntFloat(completed_hours)[2])) ]_vars

\* the scan returned an entry recorded after an unparsable row of the block
C8_Witness ==
  /\ pc = "got_data"
  /\ \E r \in (i + 1)..(j - 1) : \E q \in (r + 1)..(j - 1) :
       /\ IsDataRow(df, r)
       /\ IntFloat(df.rows[r][2])[1] = "ValueError"
       /\ IsDataRow(df, q)
       /\ IntFloat(df.rows[q][2])[1] = "ok"
       /\ HasKey(internship_data.v, Strip(PyStr(df.rows[q][1])))

NotAvailable == StrV(<<"N","/","A">>)
\* the cell of column 2 of the row the inner loop is at, as the file holds it
RawCompleted == workbook.sheets[sheet_idx].rows[j][2]

\* C9: at a data row whose "Completed" cell is the text "N/A" nothing is
\* recorded, the block ends at that row, and the codes captured so far are
\* kept: they are returned at once when there are any.
C9_NotAvailableEndsBlock ==
  [][ (InBlockAtRow /\ RawCompleted = NotAvailable)
        => /\ internship_data' = internship_data
           /\ j' = j
           /\ IF internship_data.v # <<>>
              THEN pc' = "got_data"
              ELSE pc' = "rows" /\ i' = i + 1 /\ sheet_idx' = sheet_idx ]_vars

\* the scan returned the codes captured before an "N/A" row
C9_Witness ==
  /\ pc = "got_data"
  /\ workbook.pd_opens
  /\ sheet_idx <= Len(workbook.sheets)
  /\ j <= Len(df.rows)
  /\ j > i + 1
  /\ RawCompleted = NotAvailable
  /\ internship_data.v # <<>>

====
